---- MODULE Spec2Model ----
(***************************************************************************)
(* Verification model of the sabers beatmap library: the tempo timeline    *)
(* (BpmTracker), the numeric decoders of the v2/v3 schema adapters and the *)
(* version dispatcher (AnyverBeatmap::inner_parse).                        *)
(*                                                                         *)
(* f32 values are modelled as exact rationals <<n, d>> with d > 0 in       *)
(* lowest terms; rounding is not modelled.  An unsigned subtraction is     *)
(* modelled with both outcomes a build can produce: a panic when overflow  *)
(* checks are compiled in, a wrapped value otherwise.                      *)
(***************************************************************************)
EXTENDS Integers, Sequences, FiniteSets, TLC

VARIABLES
    overflow_checks,  \* build profile: TRUE = arithmetic overflow panics
    start_bpm,        \* argument of the last BpmTracker::new
    events,           \* argument of the last BpmTracker::new
    tracker,          \* the BpmTracker (or none / panicked)
    answers,          \* the last two beat_to_song_time calls, oldest first
    direction,        \* the last NoteDirection deserialization
    precision,        \* the last deserialize_precision call
    obstacle,         \* the last Obstacle::from(v2::Obstacle) call
    parsed,           \* the last AnyverBeatmap::inner_parse call
    normalized,       \* the last Beatmap::from_v2 / from_v3 call
    mapinfo,          \* the last MapInfo::from_fs call
    replay            \* the last Replay::from_bytes / serialize_to_bytes call

vars == <<overflow_checks, start_bpm, events, tracker, answers,
          direction, precision, obstacle, parsed, normalized, mapinfo, replay>>

----------------------------------------------------------------------------
(* Bounds of the model *)

MaxEvents == 2
MaxBeat == 12
MaxRawDirection == 1400
MaxPrecision == 2100
MaxWallType == 1100

----------------------------------------------------------------------------
(* Exact rational arithmetic standing for f32 *)

RECURSIVE GCD(_, _)
GCD(a, b) == IF a % b = 0 THEN b ELSE GCD(b, a % b)

Rat(n, d) ==
    LET nn == IF d < 0 THEN 0 - n ELSE n
        dd == IF d < 0 THEN 0 - d ELSE d
        g == GCD(nn, dd)
    IN <<nn \div g, dd \div g>>

F(i) == <<i, 1>>
RAdd(x, y) == Rat(x[1] * y[2] + y[1] * x[2], x[2] * y[2])
RSub(x, y) == Rat(x[1] * y[2] - y[1] * x[2], x[2] * y[2])
RMul(x, y) == Rat(x[1] * y[1], x[2] * y[2])
RDiv(x, y) == Rat(x[1] * y[2], x[2] * y[1])
RLt(x, y) == x[1] * y[2] < y[1] * x[2]
RLeq(x, y) == x[1] * y[2] <= y[1] * x[2]

----------------------------------------------------------------------------
(* usize / u32 subtraction and Vec::get *)

\* a - b on an unsigned integer.  With overflow checks a < b panics; without
\* them the result wraps: a negative value here denotes value + 2^width.
UnsignedSub(a, b, checks) ==
    [panic |-> checks /\ a < b, wrapped |-> a < b, value |-> a - b]

\* Vec::get: None (<<>>) when the index is out of range, which a wrapped
\* index always is.
VecGet(v, idx) == IF 0 <= idx /\ idx < Len(v) THEN <<v[idx + 1]>> ELSE <<>>

----------------------------------------------------------------------------
(* Tempo timeline: BpmTracker *)

BpmEvent(song_time, beats) == [song_time |-> F(song_time), beats |-> F(beats)]

BpmChangeEvent(bpm, start_time, start_bpm_time) ==
    [bpm |-> bpm, start_time |-> start_time, start_bpm_time |-> start_bpm_time]

\* the segment pushed when events[0].song_time == 0
FirstSegment_KeepsBase(base, event) == BpmChangeEvent(base, F(0), F(0))
FirstSegment(base, event) == BpmChangeEvent(event.beats, F(0), F(0))

\* the segment pushed for one later event, from the preceding segment
NextSegment_NoCarry(last_change, event) ==
    BpmChangeEvent(event.beats,
        RMul(RDiv(RSub(event.song_time, last_change.start_bpm_time),
                  last_change.bpm), F(60)),
        event.song_time)
NextSegment(last_change, event) ==
    BpmChangeEvent(event.beats,
        RAdd(last_change.start_time,
             RMul(RDiv(RSub(event.song_time, last_change.start_bpm_time),
                       last_change.bpm), F(60))),
        event.song_time)

\* one iteration of `for event in events.iter().skip(n_base)`
PushChange(acc, event, checks) ==
    LET idx == UnsignedSub(Len(acc.changes), 1, checks)
        got == VecGet(acc.changes, idx.value)
        last_change == IF got = <<>>
                       THEN BpmChangeEvent(acc.base_bpm, F(0), F(0))
                       ELSE got[1]
    IN IF acc.status = "panicked" \/ idx.panic
       THEN [acc EXCEPT !.status = "panicked"]
       ELSE [acc EXCEPT !.changes = Append(@, NextSegment(last_change, event))]

RECURSIVE NewLoop(_, _, _, _)
NewLoop(acc, evs, i, checks) ==
    IF i > Len(evs) THEN acc
    ELSE NewLoop(PushChange(acc, evs[i], checks), evs, i + 1, checks)

BpmTrackerNew(base, evs, checks) ==
    IF evs = <<>>
    THEN [status |-> "built", base_bpm |-> base, changes |-> <<>>]
    ELSE IF evs[1].song_time = F(0)
         THEN NewLoop([status |-> "built", base_bpm |-> evs[1].beats,
                       changes |-> <<FirstSegment(base, evs[1])>>],
                      evs, 2, checks)
         ELSE NewLoop([status |-> "built", base_bpm |-> base, changes |-> <<>>],
                      evs, 1, checks)

\* `return time * (60.0 / self.base_bpm)`
ConstantMapping_Inverted(base, time) == RMul(time, RDiv(base, F(60)))
ConstantMapping(base, time) == RMul(time, RDiv(F(60), base))

\* the while loop of beat_to_song_time; i is 0-based as in the source
FindSegment_NoAdvance(changes, time, i) == i
RECURSIVE FindSegment(_, _, _)
FindSegment(changes, time, i) ==
    IF i < Len(changes) - 1 /\ RLt(changes[i + 2].start_bpm_time, time)
    THEN FindSegment(changes, time, i + 1)
    ELSE i

SegmentTime(c, time) ==
    RAdd(c.start_time, RMul(RDiv(RSub(time, c.start_bpm_time), c.bpm), F(60)))

beat_to_song_time(self, time) ==
    IF self.changes = <<>>
    THEN ConstantMapping(self.base_bpm, time)
    ELSE SegmentTime(self.changes[FindSegment(self.changes, time, 0) + 1], time)

----------------------------------------------------------------------------
(* Numeric decoders *)

DirOk(d) == [ok |-> TRUE, dir |-> d, invalid |-> 0]
\* serde::de::Error::custom(format!("invalid value: {other}"))
DirErr(other) == [ok |-> FALSE, dir |-> "none", invalid |-> other]

\* v2: impl Deserialize for NoteDirection, on the u32 read from the document
NoteDirectionV2_Through1361(value) ==
    CASE value = 0 -> DirOk("Up")
      [] value = 1 -> DirOk("Down")
      [] value = 2 -> DirOk("Left")
      [] value = 3 -> DirOk("Right")
      [] value = 4 -> DirOk("UpLeft")
      [] value = 5 -> DirOk("UpRight")
      [] value = 6 -> DirOk("DownLeft")
      [] value = 7 -> DirOk("DownRight")
      [] value = 8 -> DirOk("Any")
      [] 1000 <= value /\ value < 1023 -> DirOk("Down")
      [] 1023 <= value /\ value < 1068 -> DirOk("DownLeft")
      [] 1068 <= value /\ value < 1113 -> DirOk("Left")
      [] 1113 <= value /\ value < 1158 -> DirOk("UpLeft")
      [] 1158 <= value /\ value < 1203 -> DirOk("Up")
      [] 1203 <= value /\ value < 1248 -> DirOk("UpRight")
      [] 1248 <= value /\ value < 1293 -> DirOk("Right")
      [] 1293 <= value /\ value < 1338 -> DirOk("DownRight")
      [] 1338 <= value /\ value <= 1361 -> DirOk("Down")
      [] OTHER -> DirErr(value)
NoteDirectionV2(value) ==
    CASE value = 0 -> DirOk("Up")
      [] value = 1 -> DirOk("Down")
      [] value = 2 -> DirOk("Left")
      [] value = 3 -> DirOk("Right")
      [] value = 4 -> DirOk("UpLeft")
      [] value = 5 -> DirOk("UpRight")
      [] value = 6 -> DirOk("DownLeft")
      [] value = 7 -> DirOk("DownRight")
      [] value = 8 -> DirOk("Any")
      [] 1000 <= value /\ value < 1023 -> DirOk("Down")
      [] 1023 <= value /\ value < 1068 -> DirOk("DownLeft")
      [] 1068 <= value /\ value < 1113 -> DirOk("Left")
      [] 1113 <= value /\ value < 1158 -> DirOk("UpLeft")
      [] 1158 <= value /\ value < 1203 -> DirOk("Up")
      [] 1203 <= value /\ value < 1248 -> DirOk("UpRight")
      [] 1248 <= value /\ value < 1293 -> DirOk("Right")
      [] 1293 <= value /\ value < 1338 -> DirOk("DownRight")
      [] 1338 <= value /\ value <= 1360 -> DirOk("Down")
      [] OTHER -> DirErr(value)

\* v3: impl Deserialize for NoteDirection
NoteDirectionV3_LastArcAt1337(value) ==
    CASE value = 0 -> DirOk("Up")
      [] value = 1 -> DirOk("Down")
      [] value = 2 -> DirOk("Left")
      [] value = 3 -> DirOk("Right")
      [] value = 4 -> DirOk("UpLeft")
      [] value = 5 -> DirOk("UpRight")
      [] value = 6 -> DirOk("DownLeft")
      [] value = 7 -> DirOk("DownRight")
      [] value = 8 -> DirOk("Any")
      [] 1000 <= value /\ value < 1023 -> DirOk("Down")
      [] 1023 <= value /\ value < 1068 -> DirOk("DownLeft")
      [] 1068 <= value /\ value < 1113 -> DirOk("Left")
      [] 1113 <= value /\ value < 1158 -> DirOk("UpLeft")
      [] 1158 <= value /\ value < 1203 -> DirOk("Up")
      [] 1203 <= value /\ value < 1248 -> DirOk("UpRight")
      [] 1248 <= value /\ value < 1293 -> DirOk("Right")
      [] 1293 <= value /\ value < 1337 -> DirOk("DownRight")
      [] 1337 <= value /\ value <= 1360 -> DirOk("Down")
      [] OTHER -> DirErr(value)
NoteDirectionV3(value) ==
    CASE value = 0 -> DirOk("Up")
      [] value = 1 -> DirOk("Down")
      [] value = 2 -> DirOk("Left")
      [] value = 3 -> DirOk("Right")
      [] value = 4 -> DirOk("UpLeft")
      [] value = 5 -> DirOk("UpRight")
      [] value = 6 -> DirOk("DownLeft")
      [] value = 7 -> DirOk("DownRight")
      [] value = 8 -> DirOk("Any")
      [] 1000 <= value /\ value < 1023 -> DirOk("Down")
      [] 1023 <= value /\ value < 1068 -> DirOk("DownLeft")
      [] 1068 <= value /\ value < 1113 -> DirOk("Left")
      [] 1113 <= value /\ value < 1158 -> DirOk("UpLeft")
      [] 1158 <= value /\ value < 1203 -> DirOk("Up")
      [] 1203 <= value /\ value < 1248 -> DirOk("UpRight")
      [] 1248 <= value /\ value < 1293 -> DirOk("Right")
      [] 1293 <= value /\ value < 1338 -> DirOk("DownRight")
      [] 1338 <= value /\ value <= 1360 -> DirOk("Down")
      [] OTHER -> DirErr(value)

\* util::deserialize_precision, on the i32 read from the document
deserialize_precision_Exclusive(original) ==
    IF original < -1000 \/ original > 1000
    THEN IF original < 0
         THEN RAdd(RDiv(F(original), F(1000)), F(1))
         ELSE RSub(RDiv(F(original), F(1000)), F(1))
    ELSE F(original)
deserialize_precision(original) ==
    IF original <= -1000 \/ original >= 1000
    THEN IF original < 0
         THEN RAdd(RDiv(F(original), F(1000)), F(1))
         ELSE RSub(RDiv(F(original), F(1000)), F(1))
    ELSE F(original)

\* `h as f32` for the u32 h; a wrapped h (2^32 + value) is kept symbolic,
\* its magnitude being beyond the integers of the model.
WallHeight(h) ==
    IF h.wrapped
    THEN [u32_wrapped |-> h.value]
    ELSE LET hf == RAdd(RMul(RMul(RDiv(F(h.value), F(1000)), F(5)), F(1000)),
                        F(1000))
         IN RDiv(RSub(hf, F(1000)), F(1000))

\* impl From<v2::Obstacle> for Obstacle: (y, height) from wall_type
ObstacleFromV2(wall_type, checks) ==
    CASE wall_type = 0 ->
            [status |-> "ok", underflow |-> FALSE, y |-> F(0), height |-> F(5)]
      [] wall_type = 1 ->
            [status |-> "ok", underflow |-> FALSE, y |-> F(2), height |-> F(3)]
      [] OTHER ->
            LET t == wall_type
                in_range == t >= 4001 /\ t <= 410000
                h == IF in_range
                     THEN [panic |-> FALSE, wrapped |-> FALSE,
                           value |-> (t - 4001) \div 1000]
                     ELSE UnsignedSub(t, 1000, checks)
                sh == IF in_range THEN F((t - 4001) % 1000) ELSE F(0)
                l == RAdd(RMul(RMul(RDiv(sh, F(750)), F(5)), F(1000)), F(1334))
            IN IF h.panic
               THEN [status |-> "panicked", underflow |-> TRUE,
                     y |-> F(0), height |-> F(0)]
               ELSE [status |-> "ok", underflow |-> h.wrapped,
                     y |-> RSub(RDiv(l, F(1000)), F(2)),
                     height |-> WallHeight(h)]

----------------------------------------------------------------------------
(* Version dispatcher: AnyverBeatmap::inner_parse *)

\* Strings are sequences of characters; a document (simd_json OwnedValue
\* object) is a function from its field names to JSON values.
JsonString(chars) == [kind |-> "string", s |-> chars]
JsonNumber == [kind |-> "number", s |-> <<>>]
JsonArray == [kind |-> "array", s |-> <<>>]

\* value.get(key): None is <<>>
Get(value, key) == IF key \in DOMAIN value THEN <<value[key]>> ELSE <<>>

\* str::starts_with
starts_with(str, prefix) ==
    Len(str) >= Len(prefix) /\ SubSeq(str, 1, Len(prefix)) = prefix

Unknown == <<"u", "n", "k", "n", "o", "w", "n">>

ParseOk(variant) ==
    [ok |-> TRUE, routed |-> variant, error |-> "none", version |-> <<>>]
ParseErr(routed, error) ==
    [ok |-> FALSE, routed |-> routed, error |-> error, version |-> <<>>]

\* Err(AnyverParseError::UnsupportedVersion(version.to_string()))
UnsupportedVersion_AlwaysUnknown(version) ==
    [ok |-> FALSE, routed |-> "none", error |-> "UnsupportedVersion",
     version |-> Unknown]
UnsupportedVersion(version) ==
    [ok |-> FALSE, routed |-> "none", error |-> "UnsupportedVersion",
     version |-> version]

\* v2::Beatmap::deserialize: _version, _notes and _obstacles are required,
\* _bpmEvents has a default; every collection that is present must be an
\* array; unknown fields are ignored.
V2Deserialize(value) ==
    IF /\ {"_version", "_notes", "_obstacles"} \subseteq DOMAIN value
       /\ value["_version"].kind = "string"
       /\ \A k \in {"_notes", "_obstacles", "_bpmEvents"} \cap DOMAIN value :
            value[k].kind = "array"
    THEN ParseOk("V2")
    ELSE ParseErr("V2", "SimdJson")

\* v3::Beatmap::deserialize: every non-Option field is required and every
\* collection must be an array.
V3Deserialize(value) ==
    IF /\ {"version", "colorNotes", "bombNotes", "obstacles", "burstSliders",
           "bpmEvents"} \subseteq DOMAIN value
       /\ value["version"].kind = "string"
       /\ \A k \in {"colorNotes", "bombNotes", "obstacles", "burstSliders",
                    "bpmEvents"} : value[k].kind = "array"
    THEN ParseOk("V3")
    ELSE ParseErr("V3", "SimdJson")

\* a marker arm that hands the document to the adapter before it looks at
\* the version string
MarkerBranch_DecodeFirst(value, version, prefix, adapter) ==
    IF version.kind # "string"
    THEN ParseErr("none", "ExpectedType")
    ELSE LET decoded == IF adapter = "V2" THEN V2Deserialize(value)
                        ELSE V3Deserialize(value)
         IN IF ~decoded.ok THEN decoded
            ELSE IF starts_with(version.s, prefix) THEN decoded
            ELSE UnsupportedVersion(version.s)
\* one `if let Some(version) = value.get(..)` arm
MarkerBranch(value, version, prefix, adapter) ==
    IF version.kind # "string"
    THEN ParseErr("none", "ExpectedType")
    ELSE IF starts_with(version.s, prefix)
         THEN IF adapter = "V2" THEN V2Deserialize(value)
              ELSE V3Deserialize(value)
         ELSE UnsupportedVersion(version.s)

inner_parse_NewerFirst(value) ==
    IF Get(value, "version") # <<>>
    THEN MarkerBranch(value, Get(value, "version")[1], <<"3", ".">>, "V3")
    ELSE IF Get(value, "_version") # <<>>
         THEN MarkerBranch(value, Get(value, "_version")[1], <<"2", ".">>, "V2")
         ELSE UnsupportedVersion(Unknown)
inner_parse(value) ==
    IF Get(value, "_version") # <<>>
    THEN MarkerBranch(value, Get(value, "_version")[1], <<"2", ".">>, "V2")
    ELSE IF Get(value, "version") # <<>>
         THEN MarkerBranch(value, Get(value, "version")[1], <<"3", ".">>, "V3")
         ELSE UnsupportedVersion(Unknown)

----------------------------------------------------------------------------
(* Inputs *)

BaseBpms == {100, 120}
EventBpms == {150, 180}
EventBeats == {0, 4, 8}
QueryBeats == 0..MaxBeat

EventSet == {BpmEvent(b, m) : b \in EventBeats, m \in EventBpms}
EventLists == UNION {[1..n -> EventSet] : n \in 0..MaxEvents}

RawDirections == (0..MaxRawDirection) \cup {65535, 2147483647}
PrecisionInputs ==
    ((0 - MaxPrecision)..MaxPrecision) \cup {(0 - 2147483647) - 1, 2147483647}
WallTypes ==
    (0..MaxWallType) \cup {3999, 4000, 4001, 4002, 4751, 5001, 409999, 410000,
                           410001, 1000000}

VersionStrings ==
    {<<"2", ".", "0", ".", "0">>, <<"2", ".", "6", ".", "0">>,
     <<"3", ".", "0", ".", "0">>, <<"3", ".", "3", ".", "0">>,
     <<"9", ".", "0", ".", "0">>, <<"2", "0", ".", "0">>, <<"2">>, <<>>}
\* a marker field: absent, not a string, or a string
MarkerOptions ==
    {<<>>, <<JsonNumber>>} \cup {<<JsonString(v)>> : v \in VersionStrings}
CollectionKeys ==
    {"_notes", "_obstacles", "_bpmEvents", "colorNotes", "bombNotes",
     "obstacles", "burstSliders", "bpmEvents"}
Document(legacy, newer, keys) ==
    [k \in (IF legacy = <<>> THEN {} ELSE {"_version"})
           \cup (IF newer = <<>> THEN {} ELSE {"version"}) \cup keys |->
        IF k = "_version" THEN legacy[1]
        ELSE IF k = "version" THEN newer[1] ELSE JsonArray]
\* the same document with a number where each collection should be
Malformed(value) ==
    [k \in DOMAIN value |->
        IF k \in CollectionKeys THEN JsonNumber ELSE value[k]]
\* documents with any markers and any collections missing, the collections
\* present either all arrays or all malformed
Documents ==
    {IF malformed THEN Malformed(Document(l, n, ks)) ELSE Document(l, n, ks) :
        l \in MarkerOptions, n \in MarkerOptions, ks \in SUBSET CollectionKeys,
        malformed \in BOOLEAN}

NoTracker == [status |-> "none", base_bpm |-> F(0), changes |-> <<>>]
NoCall == [called |-> FALSE]

----------------------------------------------------------------------------
(* State machine *)

\* Components added after the decoders: nothing called yet.
IdleOthers ==
    /\ normalized = NoCall
    /\ mapinfo = NoCall
    /\ replay = NoCall

\* Nothing constructed or called yet.
IdleTempo ==
    /\ start_bpm = F(0)
    /\ events = <<>>
    /\ tracker = NoTracker
    /\ answers = <<>>

\* The tempo timeline: no tracker yet, its arguments are drawn by New.
Init ==
    /\ overflow_checks \in BOOLEAN
    /\ IdleOthers
    /\ IdleTempo
    /\ direction = NoCall
    /\ precision = NoCall
    /\ obstacle = NoCall
    /\ parsed = NoCall

\* A direction field of a document about to be deserialized.
InitDirection ==
    /\ overflow_checks \in BOOLEAN
    /\ IdleOthers
    /\ IdleTempo
    /\ \E v \in RawDirections :
        direction = [called |-> FALSE, adapter |-> "none", value |-> v,
                     result |-> DirErr(0)]
    /\ precision = NoCall
    /\ obstacle = NoCall
    /\ parsed = NoCall

\* A coordinate field of a document about to be deserialized.
InitPrecision ==
    /\ overflow_checks \in BOOLEAN
    /\ IdleOthers
    /\ IdleTempo
    /\ direction = NoCall
    /\ \E v \in PrecisionInputs :
        precision = [called |-> FALSE, original |-> v, result |-> F(0)]
    /\ obstacle = NoCall
    /\ parsed = NoCall

\* A v2::Obstacle about to be converted.
InitObstacle ==
    /\ overflow_checks \in BOOLEAN
    /\ IdleOthers
    /\ IdleTempo
    /\ direction = NoCall
    /\ precision = NoCall
    /\ \E t \in WallTypes :
        obstacle = [called |-> FALSE, wall_type |-> t,
                    result |-> [status |-> "none", underflow |-> FALSE,
                                y |-> F(0), height |-> F(0)]]
    /\ parsed = NoCall

\* A decoded document about to be dispatched.
InitDispatch ==
    /\ overflow_checks \in BOOLEAN
    /\ IdleOthers
    /\ IdleTempo
    /\ direction = NoCall
    /\ precision = NoCall
    /\ obstacle = NoCall
    /\ \E doc \in Documents :
        parsed = [called |-> FALSE, value |-> doc,
                  result |-> ParseErr("none", "none")]

\* BpmTracker::new(start_bpm, events): the constructor, run once; the tracker
\* has no mutating method afterwards.
New ==
    /\ tracker.status = "none"
    /\ \E base \in BaseBpms, evs \in EventLists :
        /\ start_bpm' = F(base)
        /\ events' = evs
        /\ tracker' = BpmTrackerNew(F(base), evs, overflow_checks)
    /\ answers' = <<>>
    /\ UNCHANGED <<normalized, mapinfo, replay>>
    /\ UNCHANGED <<overflow_checks, direction, precision, obstacle, parsed>>

\* tracker.beat_to_song_time(time)
Query ==
    /\ tracker.status = "built"
    /\ \E b \in QueryBeats :
        LET r == [beat |-> F(b), time |-> beat_to_song_time(tracker, F(b))]
        IN answers' = IF Len(answers) < 2 THEN Append(answers, r)
                      ELSE <<answers[2], r>>
    /\ UNCHANGED <<normalized, mapinfo, replay>>
    /\ UNCHANGED <<overflow_checks, start_bpm, events, tracker,
                   direction, precision, obstacle, parsed>>

NextTempo == New \/ Query

\* v2::NoteDirection::deserialize
DeserializeDirectionV2 ==
    /\ direction # NoCall
    /\ ~direction.called
    /\ direction' = [called |-> TRUE, adapter |-> "v2",
                     value |-> direction.value,
                     result |-> NoteDirectionV2(direction.value)]
    /\ UNCHANGED <<normalized, mapinfo, replay>>
    /\ UNCHANGED <<overflow_checks, start_bpm, events, tracker, answers,
                   precision, obstacle, parsed>>

\* v3::NoteDirection::deserialize
DeserializeDirectionV3 ==
    /\ direction # NoCall
    /\ ~direction.called
    /\ direction' = [called |-> TRUE, adapter |-> "v3",
                     value |-> direction.value,
                     result |-> NoteDirectionV3(direction.value)]
    /\ UNCHANGED <<normalized, mapinfo, replay>>
    /\ UNCHANGED <<overflow_checks, start_bpm, events, tracker, answers,
                   precision, obstacle, parsed>>

NextDirection == DeserializeDirectionV2 \/ DeserializeDirectionV3

\* util::deserialize_precision
DeserializePrecision ==
    /\ precision # NoCall
    /\ ~precision.called
    /\ precision' = [called |-> TRUE, original |-> precision.original,
                     result |-> deserialize_precision(precision.original)]
    /\ UNCHANGED <<normalized, mapinfo, replay>>
    /\ UNCHANGED <<overflow_checks, start_bpm, events, tracker, answers,
                   direction, obstacle, parsed>>

NextPrecision == DeserializePrecision

\* Obstacle::from(v2::Obstacle)
ObstacleFrom ==
    /\ obstacle # NoCall
    /\ ~obstacle.called
    /\ obstacle' = [called |-> TRUE, wall_type |-> obstacle.wall_type,
                    result |-> ObstacleFromV2(obstacle.wall_type,
                                              overflow_checks)]
    /\ UNCHANGED <<normalized, mapinfo, replay>>
    /\ UNCHANGED <<overflow_checks, start_bpm, events, tracker, answers,
                   direction, precision, parsed>>

NextObstacle == ObstacleFrom

\* AnyverBeatmap::inner_parse
InnerParse ==
    /\ parsed # NoCall
    /\ ~parsed.called
    /\ parsed' = [called |-> TRUE, value |-> parsed.value,
                  result |-> inner_parse(parsed.value)]
    /\ UNCHANGED <<normalized, mapinfo, replay>>
    /\ UNCHANGED <<overflow_checks, start_bpm, events, tracker, answers,
                   direction, precision, obstacle>>

NextDispatch == InnerParse

SpecTempo == Init /\ [][NextTempo]_vars
SpecDirection == InitDirection /\ [][NextDirection]_vars
SpecPrecision == InitPrecision /\ [][NextPrecision]_vars
SpecObstacle == InitObstacle /\ [][NextObstacle]_vars
SpecDispatch == InitDispatch /\ [][NextDispatch]_vars

----------------------------------------------------------------------------
(* Properties of the tempo timeline (SpecTempo) *)

\* the answer recorded for a beat, if that beat was queried
Answered(b, t) ==
    \E i \in 1..Len(answers) : answers[i].beat = F(b) /\ answers[i].time = t
Asked(b) == \E i \in 1..Len(answers) : answers[i].beat = F(b)

EventsBeatOrdered(evs) ==
    \A i \in 1..(Len(evs) - 1) : RLeq(evs[i].song_time, evs[i + 1].song_time)

\* the last segment whose start beat is at or before the beat b
LastSegmentAtOrBefore(changes, b) ==
    LET at_or_before == {i \in 1..Len(changes) :
                            RLeq(changes[i].start_bpm_time, b)}
    IN changes[CHOOSE i \in at_or_before : \A j \in at_or_before : j <= i]

\* C1: with base tempo 120 and the single event (beat 8, 180 BPM), the
\* tracker is constructed and maps beat 4 to 2 s, beat 8 to 4 s and beat 12
\* to 16/3 s: beats before the first tempo change use the base tempo.
C1_MultiSegmentScenario ==
    (tracker.status # "none" /\ start_bpm = F(120)
        /\ events = <<BpmEvent(8, 180)>>) =>
        /\ tracker.status = "built"
        /\ Asked(4) => Answered(4, F(2))
        /\ Asked(8) => Answered(8, F(4))
        /\ Asked(12) => Answered(12, Rat(16, 3))

\* C2: on a tracker built from beat-ordered events with positive tempos,
\* two answered queries are ordered in time as they are in beats.
C2_Monotonic ==
    (tracker.status = "built" /\ EventsBeatOrdered(events)
        /\ Len(answers) = 2) =>
        /\ RLt(answers[1].beat, answers[2].beat) =>
                RLeq(answers[1].time, answers[2].time)
        /\ RLt(answers[2].beat, answers[1].beat) =>
                RLeq(answers[2].time, answers[1].time)

\* two answers on either side of the boundary between two segments
C2_AcrossBoundary ==
    /\ tracker.status = "built"
    /\ EventsBeatOrdered(events)
    /\ Len(tracker.changes) = 2
    /\ Len(answers) = 2
    /\ RLt(answers[1].beat, tracker.changes[2].start_bpm_time)
    /\ RLt(tracker.changes[2].start_bpm_time, answers[2].beat)
    /\ RLt(answers[1].time, answers[2].time)

\* C3: when the first event is at beat 0, construction succeeds, the base
\* tempo becomes the event's tempo, the first segment is (beat 0, time 0,
\* event tempo), and every answer equals the answer of a tracker built from
\* the same events with any other base tempo; base 100 with event
\* (beat 0, 150 BPM) maps beat 4 to 8/5 s.
C3_BaseDiscarded ==
    (tracker.status # "none" /\ events # <<>>
        /\ events[1].song_time = F(0)) =>
        /\ tracker.status = "built"
        /\ tracker.base_bpm = events[1].beats
        /\ tracker.changes[1] = BpmChangeEvent(events[1].beats, F(0), F(0))
        /\ \A base \in BaseBpms : \A i \in 1..Len(answers) :
              answers[i].time =
                  beat_to_song_time(
                      BpmTrackerNew(F(base), events, overflow_checks),
                      answers[i].beat)
        /\ (start_bpm = F(100) /\ events = <<BpmEvent(0, 150)>> /\ Asked(4))
              => Answered(4, Rat(8, 5))

C3_ZeroEventAnswered ==
    /\ tracker.status = "built"
    /\ start_bpm = F(100)
    /\ events = <<BpmEvent(0, 150)>>
    /\ Answered(4, Rat(8, 5))

\* C4: with no events the tracker has no segments and every beat b maps to
\* b * 60 / base_bpm; base 120 maps beat 2 to 1 s.
C4_ConstantTempo ==
    (tracker.status # "none" /\ events = <<>>) =>
        /\ tracker.status = "built"
        /\ tracker.changes = <<>>
        /\ tracker.base_bpm = start_bpm
        /\ \A i \in 1..Len(answers) :
              answers[i].time = RDiv(RMul(answers[i].beat, F(60)), start_bpm)
        /\ (start_bpm = F(120) /\ Asked(2)) => Answered(2, F(1))

C4_ConstantAnswered ==
    /\ tracker.status = "built"
    /\ events = <<>>
    /\ start_bpm = F(120)
    /\ Answered(2, F(1))

----------------------------------------------------------------------------
(* Properties of the numeric decoders *)

Compass8 ==
    {"Up", "Down", "Left", "Right", "UpLeft", "UpRight", "DownLeft",
     "DownRight"}

Decoded(v, d) == direction.value = v => direction.result = DirOk(d)

\* C5 as stated: 1000, 1022, 1023, 1337, 1338 and 1360 decode to Down,
\* Down, DownLeft, Down, Down and Down in both adapters.
C5_BoundaryAsStated ==
    direction.called =>
        /\ Decoded(1000, "Down")
        /\ Decoded(1022, "Down")
        /\ Decoded(1023, "DownLeft")
        /\ Decoded(1337, "Down")
        /\ Decoded(1338, "Down")
        /\ Decoded(1360, "Down")

\* C5 amended: 1000, 1022, 1023, 1337, 1338 and 1360 decode to Down, Down,
\* DownLeft, DownRight, Down and Down in both adapters (1337 is the last
\* value of the DownRight arc [1293, 1338)).
C5_Boundary ==
    direction.called =>
        /\ Decoded(1000, "Down")
        /\ Decoded(1022, "Down")
        /\ Decoded(1023, "DownLeft")
        /\ Decoded(1337, "DownRight")
        /\ Decoded(1338, "Down")
        /\ Decoded(1360, "Down")

C5_LastDownRight ==
    /\ direction.called
    /\ direction.adapter = "v3"
    /\ direction.value = 1337
    /\ direction.result = DirOk("DownRight")

\* C6: the decode succeeds exactly on 0..8 and 1000..1360 and is an error
\* carrying the value elsewhere; the v2 and v3 decoders agree on every
\* input; every value of 1000..1360 gives one of the 8 compass directions.
C6_DecodeDomain ==
    direction.called =>
        LET v == direction.value
            r == direction.result
            other == IF direction.adapter = "v2" THEN NoteDirectionV3(v)
                     ELSE NoteDirectionV2(v)
        IN /\ r.ok <=> (v \in 0..8 \/ v \in 1000..1360)
           /\ ~r.ok => r = DirErr(v)
           /\ r.ok => r.dir \in Compass8 \cup {"Any"}
           /\ v \in 1000..1360 => r.dir \in Compass8
           /\ r = other

C6_FirstRejected ==
    /\ direction.called
    /\ direction.adapter = "v2"
    /\ direction.value = 1361
    /\ ~direction.result.ok

\* C7: deserialize_precision returns v when |v| < 1000, v/1000 + 1 when
\* v <= -1000 and v/1000 - 1 when v >= 1000; -1000 and 1000 decode to 0.
C7_Precision ==
    precision.called =>
        LET v == precision.original
            r == precision.result
        IN /\ (-1000 < v /\ v < 1000) => r = <<v, 1>>
           /\ v <= -1000 => r = Rat(v + 1000, 1000)
           /\ v >= 1000 => r = Rat(v - 1000, 1000)
           /\ v \in {-1000, 1000} => r = <<0, 1>>

C7_NegativeEncoded ==
    /\ precision.called
    /\ precision.original = -1500
    /\ precision.result = Rat(-1, 2)

\* C8: the wall geometry decode yields (y, height) for every wall type
\* without an unsigned subtraction underflow or a panic.
C8_WallDecodeTotal ==
    obstacle.called =>
        /\ obstacle.result.status = "ok"
        /\ ~obstacle.result.underflow

----------------------------------------------------------------------------
(* Properties of the version dispatcher (SpecDispatch) *)

HasPrefix(field, prefix) ==
    /\ field # <<>>
    /\ field[1].kind = "string"
    /\ starts_with(field[1].s, prefix)

\* the marker the dispatcher reads: "_version" when present, else "version"
Marker(value) ==
    IF Get(value, "_version") # <<>> THEN Get(value, "_version")
    ELSE Get(value, "version")

\* C9 as stated: a document whose version marker starts with "2." is handed
\* to the V2 adapter and one whose version marker starts with "3." to the V3
\* adapter, whatever else the document contains.
C9_DispatchAsStated ==
    parsed.called =>
        LET m == Marker(parsed.value)
            r == parsed.result
        IN /\ HasPrefix(m, <<"2", ".">>) => r.routed = "V2"
           /\ HasPrefix(m, <<"3", ".">>) => r.routed = "V3"

\* C9 amended: the marker is read from "_version" when that field is
\* present and from "version" otherwise; a document whose "_version" starts
\* with "2." is handed to the V2 adapter, and one without "_version" whose
\* "version" starts with "3." to the V3 adapter, whatever collections (and,
\* for the legacy one, whatever "version" field) it has besides; no other
\* document reaches an adapter, so "3." under "_version" and "2." under
\* "version" are unsupported versions.
C9_Dispatch ==
    parsed.called =>
        LET legacy == Get(parsed.value, "_version")
            newer == Get(parsed.value, "version")
            r == parsed.result
        IN /\ HasPrefix(legacy, <<"2", ".">>) <=> r.routed = "V2"
           /\ (legacy = <<>> /\ HasPrefix(newer, <<"3", ".">>))
                  <=> r.routed = "V3"
           /\ r.ok => r.routed \in {"V2", "V3"}

\* a "2." document that looks like the newer dialect everywhere else
C9_LegacyDespiteNewerFields ==
    /\ parsed.called
    /\ HasPrefix(Get(parsed.value, "_version"), <<"2", ".">>)
    /\ HasPrefix(Get(parsed.value, "version"), <<"3", ".">>)
    /\ {"colorNotes", "bombNotes", "obstacles", "burstSliders", "bpmEvents"}
          \subseteq DOMAIN parsed.value
    /\ parsed.result.routed = "V2"

\* C10: a string marker whose major version is neither "2." nor "3."
\* yields UnsupportedVersion carrying exactly that string ("9.0.0" gives
\* UnsupportedVersion("9.0.0")); a document with neither "_version" nor
\* "version" yields UnsupportedVersion("unknown"); every UnsupportedVersion
\* carries the marker's string, or "unknown" when there is no marker.
C10_UnsupportedVersion ==
    parsed.called =>
        LET m == Marker(parsed.value)
            r == parsed.result
        IN /\ (m # <<>> /\ m[1].kind = "string"
                 /\ ~starts_with(m[1].s, <<"2", ".">>)
                 /\ ~starts_with(m[1].s, <<"3", ".">>))
                 => r = [ok |-> FALSE, routed |-> "none",
                         error |-> "UnsupportedVersion", version |-> m[1].s]
           /\ m = <<>> =>
                 r = [ok |-> FALSE, routed |-> "none",
                      error |-> "UnsupportedVersion",
                      version |-> <<"u", "n", "k", "n", "o", "w", "n">>]
           /\ r.error = "UnsupportedVersion" =>
                 /\ ~r.ok
                 /\ r.version = IF m = <<>>
                                THEN <<"u", "n", "k", "n", "o", "w", "n">>
                                ELSE m[1].s
           /\ m = <<JsonString(<<"9", ".", "0", ".", "0">>)>> =>
                 r.version = <<"9", ".", "0", ".", "0">>

C10_NineCarried ==
    /\ parsed.called
    /\ Marker(parsed.value) = <<JsonString(<<"9", ".", "0", ".", "0">>)>>
    /\ parsed.result.error = "UnsupportedVersion"
    /\ parsed.result.version = <<"9", ".", "0", ".", "0">>


----------------------------------------------------------------------------
(* Normalization: Beatmap::from_v2 / Beatmap::from_v3 *)

MaxNotes == 2

TryOk(v) == [ok |-> TRUE, value |-> v]
TryErr(v) == [ok |-> FALSE, value |-> v]

\* impl TryFrom<v2::NoteType> for NoteColor
NoteColorTryFrom(value) ==
    CASE value = "Red" -> TryOk("Red")
      [] value = "Blue" -> TryOk("Blue")
      [] OTHER -> TryErr(value)

\* impl TryFrom<v2::Note> for Beat; `panic` is the inner unwrap failing
BeatTryFromV2(value) ==
    IF value.note_type = "Bomb"
    THEN [ok |-> FALSE, panic |-> FALSE, value |-> value]
    ELSE LET color == NoteColorTryFrom(value.note_type)
         IN IF ~color.ok
            THEN [ok |-> FALSE, panic |-> TRUE, value |-> value]
            ELSE [ok |-> TRUE, panic |-> FALSE,
                  value |-> [beat |-> value.beat, time |-> F(0),
                             x |-> value.x, y |-> value.y,
                             angle_offset |-> value.angle_offset,
                             color |-> color.value,
                             direction |-> value.direction]]

\* impl TryFrom<v2::Note> for Bomb
BombTryFromV2(value) ==
    IF value.note_type # "Bomb"
    THEN TryErr(value)
    ELSE TryOk([beat |-> value.beat, time |-> F(0),
                x |-> value.x, y |-> value.y])

\* impl From<v3::ColorNote> for Beat
BeatFromV3(value) ==
    [beat |-> value.beat, time |-> F(0), x |-> value.x, y |-> value.y,
     angle_offset |-> value.angle_offset, color |-> value.color,
     direction |-> value.direction]

\* impl From<v3::BombNote> for Bomb
BombFromV3(value) ==
    [beat |-> value.beat, time |-> F(0), x |-> value.x, y |-> value.y]

\* impl From<v2::Obstacle> for Obstacle; `panic` is the wall decode panicking
ObstacleOfV2(value, checks) ==
    LET wall == ObstacleFromV2(value.wall_type, checks)
    IN [panic |-> wall.status = "panicked",
        value |-> [beat |-> value.beat, time |-> F(0), x |-> value.x,
                   y |-> wall.y, duration_beats |-> value.duration,
                   duration |-> F(0), end_time |-> F(0),
                   height |-> wall.height, width |-> value.width]]

\* impl From<v3::Obstacle> for Obstacle
ObstacleOfV3(value) ==
    [beat |-> value.beat, time |-> F(0), x |-> value.x, y |-> value.y,
     duration_beats |-> value.duration, duration |-> F(0),
     end_time |-> F(0), height |-> value.height, width |-> value.width]

\* impl From<v3::BurstSlider> for Chain
ChainFromV3(value) ==
    [beat |-> value.beat, time |-> F(0), x |-> value.x, y |-> value.y,
     color |-> value.color, direction |-> value.direction,
     tail_beat |-> value.tail_beat, tail_time |-> F(0),
     tail_x |-> value.tail_x, tail_y |-> value.tail_y,
     num_slices |-> value.num_slices,
     squish_factor |-> value.squish_amount]

\* `x.time = bpm_tracker.beat_to_song_time(x.beat)`
TimedAt_Placeholder(bpm_tracker, x) == x
TimedAt(bpm_tracker, x) ==
    [x EXCEPT !.time = beat_to_song_time(bpm_tracker, x.beat)]

\* the obstacle closure of from_v2 and from_v3
MapObstacle_EndFromDuration(bpm_tracker, x) ==
    LET start_time == beat_to_song_time(bpm_tracker, x.beat)
        end_time == beat_to_song_time(bpm_tracker, x.duration_beats)
    IN [x EXCEPT !.time = start_time, !.end_time = end_time,
                 !.duration = RSub(end_time, start_time)]
MapObstacle_StartTempo(bpm_tracker, x) ==
    LET start_time == beat_to_song_time(bpm_tracker, x.beat)
        duration == RSub(beat_to_song_time(bpm_tracker, RAdd(x.beat, F(1))),
                         start_time)
        end_time == RAdd(start_time, RMul(x.duration_beats, duration))
    IN [x EXCEPT !.time = start_time, !.end_time = end_time,
                 !.duration = RSub(end_time, start_time)]
MapObstacle(bpm_tracker, x) ==
    LET start_time == beat_to_song_time(bpm_tracker, x.beat)
        end_time == beat_to_song_time(bpm_tracker,
                                      RAdd(x.beat, x.duration_beats))
    IN [x EXCEPT !.time = start_time, !.end_time = end_time,
                 !.duration = RSub(end_time, start_time)]

\* the chain closure of from_v3
MapChain(bpm_tracker, x) ==
    [x EXCEPT !.time = beat_to_song_time(bpm_tracker, x.beat),
              !.tail_time = beat_to_song_time(bpm_tracker, x.tail_beat)]

\* one iteration of `for note in beatmap.notes`
PushNote_BeatsFirst(acc, note, bpm_tracker) ==
    IF acc.panic # "none" THEN acc
    ELSE IF note.note_type # "Red"
    THEN LET bomb == BombTryFromV2(note)
         IN IF ~bomb.ok THEN [acc EXCEPT !.panic = "unwrap"]
            ELSE [acc EXCEPT
                    !.bombs = Append(@, TimedAt(bpm_tracker, bomb.value))]
    ELSE LET beat == BeatTryFromV2(note)
         IN IF ~beat.ok THEN [acc EXCEPT !.panic = "unwrap"]
            ELSE [acc EXCEPT
                    !.beats = Append(@, TimedAt(bpm_tracker, beat.value))]
PushNote(acc, note, bpm_tracker) ==
    IF acc.panic # "none" THEN acc
    ELSE IF note.note_type = "Bomb"
    THEN LET bomb == BombTryFromV2(note)
         IN IF ~bomb.ok THEN [acc EXCEPT !.panic = "unwrap"]
            ELSE [acc EXCEPT
                    !.bombs = Append(@, TimedAt(bpm_tracker, bomb.value))]
    ELSE LET beat == BeatTryFromV2(note)
         IN IF ~beat.ok THEN [acc EXCEPT !.panic = "unwrap"]
            ELSE [acc EXCEPT
                    !.beats = Append(@, TimedAt(bpm_tracker, beat.value))]

RECURSIVE NotesLoop(_, _, _, _)
NotesLoop(acc, notes, i, bpm_tracker) ==
    IF i > Len(notes) THEN acc
    ELSE NotesLoop(PushNote(acc, notes[i], bpm_tracker), notes, i + 1,
                   bpm_tracker)

Panicked(cause) ==
    [status |-> "panicked", panic |-> cause, beats |-> <<>>, bombs |-> <<>>,
     obstacles |-> <<>>, chains |-> <<>>]
Returned(beats, bombs, obstacles, chains) ==
    [status |-> "returned", panic |-> "none", beats |-> beats,
     bombs |-> bombs, obstacles |-> obstacles, chains |-> chains]

\* Beatmap::from_v2(beatmap, bpm)
from_v2(beatmap, bpm, checks) ==
    LET bpm_tracker == BpmTrackerNew(bpm, beatmap.bpm_events, checks)
        notes == NotesLoop([panic |-> "none", beats |-> <<>>, bombs |-> <<>>],
                           beatmap.notes, 1, bpm_tracker)
        walls == [i \in 1..Len(beatmap.obstacles) |->
                    ObstacleOfV2(beatmap.obstacles[i], checks)]
    IN IF bpm_tracker.status = "panicked" THEN Panicked("tracker")
       ELSE IF notes.panic # "none" THEN Panicked(notes.panic)
       ELSE IF \E i \in 1..Len(walls) : walls[i].panic THEN Panicked("wall")
       ELSE Returned(notes.beats, notes.bombs,
                     [i \in 1..Len(walls) |->
                        MapObstacle(bpm_tracker, walls[i].value)],
                     <<>>)

\* Beatmap::from_v3(beatmap, bpm)
from_v3(beatmap, bpm, checks) ==
    LET bpm_tracker == BpmTrackerNew(bpm, beatmap.bpm_events, checks)
    IN IF bpm_tracker.status = "panicked" THEN Panicked("tracker")
       ELSE Returned(
            [i \in 1..Len(beatmap.color_notes) |->
                TimedAt(bpm_tracker, BeatFromV3(beatmap.color_notes[i]))],
            [i \in 1..Len(beatmap.bomb_notes) |->
                TimedAt(bpm_tracker, BombFromV3(beatmap.bomb_notes[i]))],
            [i \in 1..Len(beatmap.obstacles) |->
                MapObstacle(bpm_tracker, ObstacleOfV3(beatmap.obstacles[i]))],
            [i \in 1..Len(beatmap.burst_sliders) |->
                MapChain(bpm_tracker, ChainFromV3(beatmap.burst_sliders[i]))])


\* Inputs of the normalization.  Coordinates and directions do not take part
\* in the conversion and are held at one value.
V2Note(beat, note_type) ==
    [beat |-> F(beat), x |-> F(1), y |-> F(0), note_type |-> note_type,
     direction |-> "Down", angle_offset |-> <<>>]
V2Obstacle(beat, duration, wall_type) ==
    [beat |-> F(beat), wall_type |-> wall_type, x |-> F(1),
     duration |-> F(duration), width |-> F(1)]
V3ColorNote(beat, color) ==
    [beat |-> F(beat), x |-> F(1), y |-> F(0), angle_offset |-> <<>>,
     color |-> color, direction |-> "Down"]
V3BombNote(beat) == [beat |-> F(beat), x |-> F(1), y |-> F(0)]
V3Obstacle(beat, duration) ==
    [beat |-> F(beat), x |-> F(1), y |-> F(0), duration |-> F(duration),
     width |-> F(1), height |-> F(5)]
V3BurstSlider(beat, tail_beat) ==
    [beat |-> F(beat), x |-> F(1), y |-> F(0), color |-> "Red",
     direction |-> "Down", tail_beat |-> F(tail_beat), tail_x |-> F(2),
     tail_y |-> F(0), num_slices |-> 3, squish_amount |-> F(1)]

\* v2::NoteType: the only discriminants deserialization lets through
NoteTypes == {"Red", "Blue", "Bomb"}
NoteBeats == {2, 6}
\* <<beat, duration in beats>> of an obstacle
ObstacleSpans == {<<0, 3>>, <<2, 4>>, <<6, 0>>, <<6, 0 - 2>>}

\* tempo-change lists: none, one at beat 0, one later, two, two sharing a
\* beat, two out of order, and three with a slower and a faster tempo
TimelineCases ==
    {<<>>,
     <<BpmEvent(0, 150)>>,
     <<BpmEvent(8, 180)>>,
     <<BpmEvent(0, 150), BpmEvent(4, 180)>>,
     <<BpmEvent(4, 150), BpmEvent(4, 180)>>,
     <<BpmEvent(8, 180), BpmEvent(4, 150)>>,
     <<BpmEvent(0, 120), BpmEvent(1, 240), BpmEvent(2, 80)>>}

AtMostOne(S) == {<<>>} \cup {<<x>> : x \in S}

V2Notes ==
    UNION {[1..n -> {V2Note(b, t) : b \in NoteBeats, t \in NoteTypes}] :
            n \in 0..MaxNotes}
V2Beatmaps ==
    {[notes |-> ns, obstacles |-> os, bpm_events |-> evs] :
        ns \in V2Notes,
        os \in AtMostOne({V2Obstacle(span[1], span[2], w) :
                            span \in ObstacleSpans, w \in {0, 2}}),
        evs \in TimelineCases}
V3Beatmaps ==
    {[color_notes |-> cs, bomb_notes |-> bs, obstacles |-> os,
      burst_sliders |-> ss, bpm_events |-> evs] :
        cs \in AtMostOne({V3ColorNote(b, c) : b \in NoteBeats,
                            c \in {"Red", "Blue"}}),
        bs \in AtMostOne({V3BombNote(b) : b \in NoteBeats}),
        os \in AtMostOne({V3Obstacle(span[1], span[2]) :
                            span \in ObstacleSpans}),
        ss \in AtMostOne({V3BurstSlider(b, t) : b \in NoteBeats,
                            t \in {2, 6, 10}}),
        evs \in TimelineCases}

\* A deserialized beatmap of either dialect about to be normalized.
InitNormalize ==
    /\ overflow_checks \in BOOLEAN
    /\ IdleTempo
    /\ direction = NoCall
    /\ precision = NoCall
    /\ obstacle = NoCall
    /\ parsed = NoCall
    /\ \E bpm \in BaseBpms :
        \/ \E beatmap \in V2Beatmaps :
            normalized = [called |-> FALSE, dialect |-> "V2",
                          bpm |-> F(bpm), beatmap |-> beatmap,
                          result |-> Panicked("none")]
        \/ \E beatmap \in V3Beatmaps :
            normalized = [called |-> FALSE, dialect |-> "V3",
                          bpm |-> F(bpm), beatmap |-> beatmap,
                          result |-> Panicked("none")]
    /\ mapinfo = NoCall
    /\ replay = NoCall

\* Beatmap::from_any, AnyverBeatmap::V2 arm
FromV2 ==
    /\ normalized # NoCall
    /\ ~normalized.called
    /\ normalized.dialect = "V2"
    /\ normalized' = [normalized EXCEPT !.called = TRUE,
            !.result = from_v2(normalized.beatmap, normalized.bpm,
                               overflow_checks)]
    /\ UNCHANGED <<mapinfo, replay>>
    /\ UNCHANGED <<overflow_checks, start_bpm, events, tracker, answers,
                   direction, precision, obstacle, parsed>>

\* Beatmap::from_any, AnyverBeatmap::V3 arm
FromV3 ==
    /\ normalized # NoCall
    /\ ~normalized.called
    /\ normalized.dialect = "V3"
    /\ normalized' = [normalized EXCEPT !.called = TRUE,
            !.result = from_v3(normalized.beatmap, normalized.bpm,
                               overflow_checks)]
    /\ UNCHANGED <<mapinfo, replay>>
    /\ UNCHANGED <<overflow_checks, start_bpm, events, tracker, answers,
                   direction, precision, obstacle, parsed>>

NextNormalize == FromV2 \/ FromV3

SpecNormalize == InitNormalize /\ [][NextNormalize]_vars

----------------------------------------------------------------------------
(* Properties of the normalization (SpecNormalize) *)

\* the timeline the conversion built for the call recorded in `normalized`
Timeline ==
    BpmTrackerNew(normalized.bpm, normalized.beatmap.bpm_events,
                  overflow_checks)
NormalizedOk == normalized # NoCall /\ normalized.called
                    /\ normalized.result.status = "returned"
OnTimeline(xs) ==
    \A i \in 1..Len(xs) : xs[i].time = beat_to_song_time(Timeline, xs[i].beat)

\* C11: in every unified beatmap returned by from_v2 or from_v3, the time of
\* every beat, bomb, obstacle and chain is the tempo timeline's value for the
\* entity's beat, the timeline being the one built from the map's base tempo
\* and its tempo-change list.
C11_EveryEntityOnTimeline ==
    NormalizedOk =>
        /\ OnTimeline(normalized.result.beats)
        /\ OnTimeline(normalized.result.bombs)
        /\ OnTimeline(normalized.result.obstacles)
        /\ OnTimeline(normalized.result.chains)

\* C11 witness: a newer-dialect map with a tempo change at beat 4 whose
\* note, bomb, obstacle and chain all lie past it and got a non-zero time.
C11_AllKindsTimed ==
    /\ NormalizedOk
    /\ normalized.dialect = "V3"
    /\ Len(Timeline.changes) = 2
    /\ \A xs \in {normalized.result.beats, normalized.result.bombs,
                  normalized.result.obstacles, normalized.result.chains} :
        Len(xs) = 1 /\ xs[1].beat = F(6) /\ xs[1].time # F(0)


\* C12: over a beat-ordered tempo-change list with positive tempos, every
\* returned obstacle of non-negative beat duration ends no earlier than it
\* starts (so its duration is not negative) and every returned chain whose
\* tail beat is not before its head beat has its tail no earlier in time.
C12_IntervalsNotInverted ==
    (NormalizedOk /\ EventsBeatOrdered(normalized.beatmap.bpm_events)) =>
        /\ \A i \in 1..Len(normalized.result.obstacles) :
            LET x == normalized.result.obstacles[i]
            IN RLeq(F(0), x.duration_beats) =>
                RLeq(x.time, x.end_time) /\ RLeq(F(0), x.duration)
        /\ \A i \in 1..Len(normalized.result.chains) :
            LET x == normalized.result.chains[i]
            IN RLeq(x.beat, x.tail_beat) => RLeq(x.time, x.tail_time)

\* C12 witness: an obstacle over beats 2..6 and a chain over beats 2..10,
\* both across the tempo change at beat 4, each ending later than it starts.
C12_AcrossTempoChange ==
    /\ NormalizedOk
    /\ normalized.beatmap.bpm_events = <<BpmEvent(0, 150), BpmEvent(4, 180)>>
    /\ \E i \in 1..Len(normalized.result.obstacles) :
        LET x == normalized.result.obstacles[i]
        IN x.beat = F(2) /\ x.duration_beats = F(4) /\ RLt(x.time, x.end_time)
    /\ \E i \in 1..Len(normalized.result.chains) :
        LET x == normalized.result.chains[i]
        IN x.beat = F(2) /\ x.tail_beat = F(10) /\ RLt(x.time, x.tail_time)


\* the segments after the first whose tempo differs from the segment before
\* and whose start beat lies strictly inside the obstacle's beat interval
ChangesInside(x) ==
    {i \in 2..Len(Timeline.changes) :
        /\ Timeline.changes[i].bpm # Timeline.changes[i - 1].bpm
        /\ RLt(x.beat, Timeline.changes[i].start_bpm_time)
        /\ RLt(Timeline.changes[i].start_bpm_time,
               RAdd(x.beat, x.duration_beats))}

\* the tempo in force at a beat: that of the last segment starting at or
\* before it, of the first segment for an earlier beat, else the base tempo
TempoAt(b) ==
    IF Timeline.changes = <<>> THEN Timeline.base_bpm
    ELSE IF RLeq(Timeline.changes[1].start_bpm_time, b)
         THEN LastSegmentAtOrBefore(Timeline.changes, b).bpm
         ELSE Timeline.changes[1].bpm

ConstantTempoDuration(x) ==
    RDiv(RMul(x.duration_beats, F(60)), TempoAt(x.beat))

EndMappedIndependently(x) ==
    /\ x.end_time = beat_to_song_time(Timeline, RAdd(x.beat, x.duration_beats))
    /\ x.duration = RSub(x.end_time, x.time)

\* C19 as stated: every returned obstacle has end_time equal to the
\* timeline's value at beat + duration_beats and duration equal to
\* end_time - time, and whenever a tempo change falls inside its beat
\* interval the duration differs from duration_beats * 60 / (tempo at the
\* start beat).
C19_DurationAsStated ==
    NormalizedOk =>
        \A i \in 1..Len(normalized.result.obstacles) :
            LET x == normalized.result.obstacles[i]
            IN /\ EndMappedIndependently(x)
               /\ (EventsBeatOrdered(normalized.beatmap.bpm_events)
                    /\ ChangesInside(x) # {})
                    => x.duration # ConstantTempoDuration(x)

\* C19 amended: every returned obstacle has end_time equal to the
\* timeline's value at beat + duration_beats and duration equal to
\* end_time - time; when exactly one tempo change of a beat-ordered timeline
\* falls inside its beat interval the duration differs from
\* duration_beats * 60 / (tempo at the start beat).
C19_Duration ==
    NormalizedOk =>
        \A i \in 1..Len(normalized.result.obstacles) :
            LET x == normalized.result.obstacles[i]
            IN /\ EndMappedIndependently(x)
               /\ (EventsBeatOrdered(normalized.beatmap.bpm_events)
                    /\ Cardinality(ChangesInside(x)) = 1)
                    => x.duration # ConstantTempoDuration(x)

\* C19 witness: an obstacle over beats 2..6 across the change from 150 to
\* 180 BPM at beat 4 lasts 22/15 s, not the 8/5 s of four beats at 150 BPM.
C19_ShorterAcrossSpeedUp ==
    /\ NormalizedOk
    /\ normalized.beatmap.bpm_events = <<BpmEvent(0, 150), BpmEvent(4, 180)>>
    /\ \E i \in 1..Len(normalized.result.obstacles) :
        LET x == normalized.result.obstacles[i]
        IN /\ x.beat = F(2) /\ x.duration_beats = F(4)
           /\ x.duration = Rat(22, 15)
           /\ ConstantTempoDuration(x) = Rat(8, 5)

IsBombNote(note) == note.note_type = "Bomb"
IsColorNote(note) == note.note_type # "Bomb"

\* C20: from_v2 never fails a conversion unwrap, and the beatmap it returns
\* holds the Bomb notes of the document in bombs and the Red and Blue notes
\* in beats with the matching color, each in document order, so that
\* len(beats) + len(bombs) is the number of notes; chains is empty.
C20_NotePartition ==
    (normalized # NoCall /\ normalized.called /\ normalized.dialect = "V2") =>
        /\ normalized.result.panic # "unwrap"
        /\ normalized.result.status = "returned" =>
            LET notes == normalized.beatmap.notes
                bombs == SelectSeq(notes, IsBombNote)
                colored == SelectSeq(notes, IsColorNote)
                out == normalized.result
            IN /\ Len(out.bombs) = Len(bombs)
               /\ \A i \in 1..Len(bombs) :
                    /\ out.bombs[i].beat = bombs[i].beat
                    /\ out.bombs[i].x = bombs[i].x
                    /\ out.bombs[i].y = bombs[i].y
               /\ Len(out.beats) = Len(colored)
               /\ \A i \in 1..Len(colored) :
                    /\ out.beats[i].beat = colored[i].beat
                    /\ out.beats[i].x = colored[i].x
                    /\ out.beats[i].y = colored[i].y
                    /\ out.beats[i].color = colored[i].note_type
                    /\ out.beats[i].direction = colored[i].direction
               /\ Len(out.beats) + Len(out.bombs) = Len(notes)
               /\ out.chains = <<>>

\* C20 witness: a bomb at beat 6 followed by a blue note at beat 2 come out
\* as one bomb and one blue beat.
C20_BombThenBlue ==
    /\ normalized # NoCall /\ normalized.called /\ normalized.dialect = "V2"
    /\ normalized.beatmap.notes = <<V2Note(6, "Bomb"), V2Note(2, "Blue")>>
    /\ normalized.result.status = "returned"
    /\ Len(normalized.result.bombs) = 1
    /\ normalized.result.bombs[1].beat = F(6)
    /\ Len(normalized.result.beats) = 1
    /\ normalized.result.beats[1].beat = F(2)
    /\ normalized.result.beats[1].color = "Blue"

----------------------------------------------------------------------------
(* Absent collections (SpecDispatch) *)

\* C13: a document handed to an adapter with its mandatory collections
\* present is adapted successfully when an optional collection is absent:
\* the legacy adapter accepts a document without "_bpmEvents", the newer
\* adapter one without "bpmEvents" or without "burstSliders".
C13_AbsentCollectionsDefault ==
    parsed.called =>
        LET value == parsed.value
            r == parsed.result
        IN /\ (r.routed = "V2" /\ {"_notes", "_obstacles"} \subseteq DOMAIN value)
                => r.ok
           /\ (r.routed = "V3"
                /\ {"colorNotes", "bombNotes", "obstacles"} \subseteq DOMAIN value)
                => r.ok


----------------------------------------------------------------------------
(* Segment order and segment selection (SpecTempo) *)

\* C14: every timeline that BpmTracker::new produces has its segments in
\* beat order, each segment starting at or after the one before it; an
\* event list whose beats decrease yields no timeline.
C14_SegmentsBeatOrdered ==
    tracker.status = "built" =>
        /\ \A i \in 1..(Len(tracker.changes) - 1) :
            RLeq(tracker.changes[i].start_bpm_time,
                 tracker.changes[i + 1].start_bpm_time)
        /\ EventsBeatOrdered(events)

\* C18: on a timeline with at least one segment built from a beat-ordered
\* event list, every answer for a beat at or after the first segment's start
\* equals start_time + (beat - start_beat) / bpm * 60 of the last segment
\* starting at or before that beat; this includes a beat that is exactly a
\* segment's start and segments that share a start beat.
C18_LastSegmentFormula ==
    (tracker.status = "built" /\ tracker.changes # <<>>
        /\ EventsBeatOrdered(events)) =>
        \A n \in 1..Len(answers) :
            LET b == answers[n].beat
            IN RLeq(tracker.changes[1].start_bpm_time, b) =>
                LET seg == LastSegmentAtOrBefore(tracker.changes, b)
                IN answers[n].time =
                    RAdd(seg.start_time,
                         RMul(RDiv(RSub(b, seg.start_bpm_time), seg.bpm), F(60)))

\* C18 witness: two segments of different tempo sharing a start beat, with
\* one answer exactly at that beat and one after it.
C18_TieAndBoundary ==
    /\ tracker.status = "built"
    /\ Len(tracker.changes) = 2
    /\ tracker.changes[1].start_bpm_time = tracker.changes[2].start_bpm_time
    /\ tracker.changes[1].bpm # tracker.changes[2].bpm
    /\ Len(answers) = 2
    /\ answers[1].beat = tracker.changes[2].start_bpm_time
    /\ RLt(tracker.changes[2].start_bpm_time, answers[2].beat)


----------------------------------------------------------------------------
(* Map loading: MapInfo::from_fs over a FileSystem *)

MaxMaps == 2

\* u8::to_ascii_lowercase on the letters that occur in the model's names
ToAsciiLower(c) ==
    CASE c = "A" -> "a" [] c = "D" -> "d" [] c = "E" -> "e" [] c = "F" -> "f"
      [] c = "I" -> "i" [] c = "L" -> "l" [] c = "N" -> "n" [] c = "O" -> "o"
      [] c = "P" -> "p" [] c = "R" -> "r" [] c = "T" -> "t" [] c = "X" -> "x"
      [] OTHER -> c

\* str::eq_ignore_ascii_case
eq_ignore_ascii_case(a, b) ==
    /\ Len(a) = Len(b)
    /\ \A i \in 1..Len(a) : ToAsciiLower(a[i]) = ToAsciiLower(b[i])

\* impl FromStr for Difficulty
DifficultyFromStr(str) ==
    CASE str = <<"E", "a", "s", "y">> -> TryOk("Easy")
      [] str = <<"N", "o", "r", "m", "a", "l">> -> TryOk("Normal")
      [] str = <<"H", "a", "r", "d">> -> TryOk("Hard")
      [] str = <<"E", "x", "p", "e", "r", "t">> -> TryOk("Expert")
      [] str = <<"E", "x", "p", "e", "r", "t", "+">> -> TryOk("ExpertPlus")
      [] str = <<"E", "x", "p", "e", "r", "t", "P", "l", "u", "s">> ->
            TryOk("ExpertPlus")
      [] OTHER -> TryErr(str)

\* A file system is its kind (a directory or a zip archive), whether the
\* directory exists, whether the operating system resolves directory
\* entries without regard to case, and its entries in listing order.
\* FileSystem::list
List(fs) ==
    IF fs.kind = "native" /\ ~fs.root_exists
    THEN TryErr("IoError")
    ELSE TryOk([i \in 1..Len(fs.files) |-> fs.files[i].name])

\* the stored entries a path resolves to
Resolve(fs, path) ==
    {i \in 1..Len(fs.files) :
        IF fs.kind = "native" /\ fs.case_insensitive
        THEN eq_ignore_ascii_case(fs.files[i].name, path)
        ELSE fs.files[i].name = path}

\* FileSystem::read_bytes: fs::read(root.join(path)) / archive.by_name(path)
read_bytes(fs, path) ==
    LET found == Resolve(fs, path)
    IN IF found = {} \/ (fs.kind = "native" /\ ~fs.root_exists)
       THEN TryErr(IF fs.kind = "native" THEN "IoError" ELSE "ZipError")
       ELSE TryOk(fs.files[CHOOSE i \in found : \A j \in found : i <= j].content)

\* `.find(|c| c.to_string_lossy().eq_ignore_ascii_case("info.dat"))`
FindInfoDat(names) ==
    LET hits == {i \in 1..Len(names) :
                    eq_ignore_ascii_case(names[i],
                        <<"i", "n", "f", "o", ".", "d", "a", "t">>)}
    IN IF hits = {} THEN <<>>
       ELSE <<names[CHOOSE i \in hits : \A j \in hits : i <= j]>>

MapErr(error, name) ==
    [status |-> "err", error |-> error, name |-> name, maps |-> <<>>]
MapOk(maps) ==
    [status |-> "ok", error |-> "none", name |-> <<>>, maps |-> maps]

\* v2::MapInfo::from_reader
MapInfoFromReader(content) ==
    IF content.kind = "info" THEN TryOk(content) ELSE TryErr("InfoParseError")

\* AnyverBeatmap::from_reader
AnyverFromReader(content) ==
    IF content.kind # "beatmap" THEN ParseErr("none", "SimdJson")
    ELSE inner_parse(content.value)

\* the body of `for map in set.beatmaps` followed by the rest of the loop
RECURSIVE MapsLoop(_, _, _, _)
MapsLoop(fs, beatmaps, i, maps) ==
    IF i > Len(beatmaps) THEN MapOk(maps)
    ELSE LET map == beatmaps[i]
             beatmap == read_bytes(fs, map.filename)
             parsed_map == AnyverFromReader(beatmap.value)
             difficulty == DifficultyFromStr(map.difficulty)
         IN IF ~beatmap.ok THEN MapErr(beatmap.value, <<>>)
            ELSE IF ~parsed_map.ok THEN MapErr("MapParseError", <<>>)
            ELSE IF ~difficulty.ok
                 THEN MapErr("BadDifficulty", difficulty.value)
            ELSE MapsLoop(fs, beatmaps, i + 1,
                          Append(maps, difficulty.value))

\* MapInfo::from_fs
from_fs(fs) ==
    LET names == List(fs)
        found == FindInfoDat(names.value)
        bytes == read_bytes(fs, found[1])
        info == MapInfoFromReader(bytes.value)
    IN IF ~names.ok THEN MapErr(names.value, <<>>)
       ELSE IF found = <<>> THEN MapErr("MissingInfoDat", <<>>)
       ELSE IF ~bytes.ok THEN MapErr(bytes.value, <<>>)
       ELSE IF ~info.ok THEN MapErr(info.value, <<>>)
       ELSE MapsLoop(fs, info.value.beatmaps, 1, <<>>)


\* Inputs of the map loading.
InfoNames ==
    {<<"I", "n", "f", "o", ".", "d", "a", "t">>,
     <<"i", "n", "f", "o", ".", "d", "a", "t">>,
     <<"I", "N", "F", "O", ".", "D", "A", "T">>}
ExpertDat == <<"E", "x", "p", "e", "r", "t", ".", "d", "a", "t">>
ExpertDatLower == <<"e", "x", "p", "e", "r", "t", ".", "d", "a", "t">>
LunaticDat == <<"L", "u", "n", "a", "t", "i", "c", ".", "d", "a", "t">>
DifficultyNames ==
    {<<"E", "x", "p", "e", "r", "t">>,
     <<"E", "x", "p", "e", "r", "t", "+">>,
     <<"E", "x", "p", "e", "r", "t", "P", "l", "u", "s">>,
     <<"e", "x", "p", "e", "r", "t">>,
     <<"L", "u", "n", "a", "t", "i", "c">>}

\* v2::mapinfo::Beatmap: _difficulty and _beatmapFilename
MapEntries ==
    {[difficulty |-> d, filename |-> f] :
        d \in DifficultyNames, f \in {ExpertDat, LunaticDat}}
InfoContents ==
    {[kind |-> "garbage"]} \cup
    {[kind |-> "info", beatmaps |-> ms] :
        ms \in UNION {[1..n -> MapEntries] : n \in 0..MaxMaps}}
GoodBeatmap ==
    [kind |-> "beatmap",
     value |-> Document(<<JsonString(<<"2", ".", "0", ".", "0">>)>>, <<>>,
                        {"_notes", "_obstacles"})]
BadBeatmap ==
    [kind |-> "beatmap",
     value |-> Document(<<JsonString(<<"9", ".", "0", ".", "0">>)>>, <<>>, {})]

\* The files of a map directory: at most one metadata file, at most one
\* Expert beatmap file and at most one Lunatic beatmap file.
InfoFiles ==
    AtMostOne({[name |-> n, content |-> c] :
                n \in InfoNames, c \in InfoContents})
BeatmapFiles(names, contents) ==
    AtMostOne({[name |-> n, content |-> c] : n \in names, c \in contents})
\* A native directory (which may not exist, on a file system that may fold
\* case) or a zip archive.
FileSystem(kind, root_exists, case_insensitive, files) ==
    IF kind = "native"
    THEN [kind |-> "native", root_exists |-> root_exists,
          case_insensitive |-> case_insensitive,
          files |-> IF root_exists THEN files ELSE <<>>]
    ELSE [kind |-> "zip", root_exists |-> TRUE, case_insensitive |-> FALSE,
          files |-> files]

\* A directory or archive about to be loaded.
InitMapInfo ==
    /\ overflow_checks \in BOOLEAN
    /\ IdleTempo
    /\ direction = NoCall
    /\ precision = NoCall
    /\ obstacle = NoCall
    /\ parsed = NoCall
    /\ normalized = NoCall
    /\ \E kind \in {"native", "zip"}, e \in BOOLEAN, ci \in BOOLEAN,
          info \in InfoFiles,
          expert \in BeatmapFiles({ExpertDat, ExpertDatLower},
                                  {GoodBeatmap, BadBeatmap}),
          lunatic \in BeatmapFiles({LunaticDat}, {GoodBeatmap}) :
        mapinfo = [called |-> FALSE,
                   fs |-> FileSystem(kind, e, ci, info \o expert \o lunatic),
                   result |-> MapErr("none", <<>>)]
    /\ replay = NoCall

\* MapInfo::from_dir / MapInfo::from_zip
FromFs ==
    /\ mapinfo # NoCall
    /\ ~mapinfo.called
    /\ mapinfo' = [mapinfo EXCEPT !.called = TRUE, !.result = from_fs(mapinfo.fs)]
    /\ UNCHANGED <<normalized, replay>>
    /\ UNCHANGED <<overflow_checks, start_bpm, events, tracker, answers,
                   direction, precision, obstacle, parsed>>

NextMapInfo == FromFs

SpecMapInfo == InitMapInfo /\ [][NextMapInfo]_vars

----------------------------------------------------------------------------
(* Properties of the map loading (SpecMapInfo) *)

\* the stored metadata document of the call, if it is located and decodes
LoadedInfo ==
    LET fs == mapinfo.fs
        hits == {i \in 1..Len(fs.files) :
                    eq_ignore_ascii_case(fs.files[i].name,
                        <<"i", "n", "f", "o", ".", "d", "a", "t">>)}
    IN IF (fs.kind = "native" /\ ~fs.root_exists) \/ hits = {} THEN <<>>
       ELSE LET c == fs.files[CHOOSE i \in hits : \A j \in hits : i <= j].content
            IN IF c.kind = "info" THEN <<c>> ELSE <<>>

ValidDifficultyNames ==
    {<<"E", "a", "s", "y">>, <<"N", "o", "r", "m", "a", "l">>,
     <<"H", "a", "r", "d">>, <<"E", "x", "p", "e", "r", "t">>,
     <<"E", "x", "p", "e", "r", "t", "+">>,
     <<"E", "x", "p", "e", "r", "t", "P", "l", "u", "s">>}

\* C15: when the metadata document lists a difficulty whose name is not one
\* of Easy, Normal, Hard, Expert, Expert+ and ExpertPlus, loading reports
\* BadDifficulty carrying such a listed name, and no other error.
C15_BadDifficultyReported ==
    (mapinfo # NoCall /\ mapinfo.called /\ LoadedInfo # <<>>) =>
        LET beatmaps == LoadedInfo[1].beatmaps
            bad == {beatmaps[i].difficulty : i \in 1..Len(beatmaps)}
                        \ ValidDifficultyNames
        IN bad # {} =>
            /\ mapinfo.result.error = "BadDifficulty"
            /\ mapinfo.result.name \in bad

\* C16: when the metadata document and every per-difficulty document it
\* names are stored under a name equal to the requested one up to letter
\* case, each of them is found and read: loading does not end in a missing
\* metadata document or in a failed read.
C16_CaseInsensitiveLookup ==
    (mapinfo # NoCall /\ mapinfo.called /\ LoadedInfo # <<>>) =>
        LET fs == mapinfo.fs
            beatmaps == LoadedInfo[1].beatmaps
        IN (\A i \in 1..Len(beatmaps) : \E k \in 1..Len(fs.files) :
                eq_ignore_ascii_case(fs.files[k].name, beatmaps[i].filename))
            => mapinfo.result.error \notin {"MissingInfoDat", "IoError", "ZipError"}


----------------------------------------------------------------------------
(* Binary replay codec: Replay::from_bytes / Replay::serialize_to_bytes *)

MaxFrames == 1

\* A reader is the byte sequence and the number of bytes consumed.  Every
\* read yields a status ("ok", "err" with a ParseError, "panic" with its
\* cause), a value and the new position.
ReadOk(value, pos) ==
    [status |-> "ok", error |-> "none", value |-> value, pos |-> pos]
ReadErr(error, pos) ==
    [status |-> "err", error |-> error, value |-> <<>>, pos |-> pos]
ReadPanic(cause, pos) ==
    [status |-> "panic", error |-> cause, value |-> <<>>, pos |-> pos]

\* The `?` operator: a failed read is returned, a successful one is handed
\* to the rest of the function.
Try(r, rest(_)) == IF r.status # "ok" THEN r ELSE rest(r)

\* Read::read_exact on a byte slice
read_exact(bytes, pos, n) ==
    IF pos + n <= Len(bytes)
    THEN ReadOk(SubSeq(bytes, pos + 1, pos + n), pos + n)
    ELSE ReadErr("IoError", pos)

\* i32::from_le_bytes / i32::to_le_bytes
I32FromLe(x) ==
    x[1] + 256 * x[2] + 65536 * x[3]
        + 16777216 * (IF x[4] < 128 THEN x[4] ELSE x[4] - 256)
I32ToLe(n) ==
    <<n % 256, (n \div 256) % 256, (n \div 65536) % 256,
      (n \div 16777216) % 256>>

read_byte(bytes, pos) ==
    LET x == read_exact(bytes, pos, 1)
    IN IF x.status # "ok" THEN x ELSE ReadOk(x.value[1], x.pos)

read_bool(bytes, pos) ==
    LET x == read_exact(bytes, pos, 1)
    IN IF x.status # "ok" THEN x ELSE ReadOk(x.value[1] # 0, x.pos)

read_i32(bytes, pos) ==
    LET x == read_exact(bytes, pos, 4)
    IN IF x.status # "ok" THEN x ELSE ReadOk(I32FromLe(x.value), x.pos)

\* f32::from_le_bytes keeps the bit pattern: an f32 is its four bytes
read_f32(bytes, pos) == read_exact(bytes, pos, 4)

\* String::from_utf8, for one- and two-byte sequences (the inputs of the
\* model hold no lead byte of a longer sequence)
RECURSIVE Utf8Valid(_, _)
Utf8Valid(out, i) ==
    IF i > Len(out) THEN TRUE
    ELSE IF out[i] < 128 THEN Utf8Valid(out, i + 1)
    ELSE IF /\ 194 <= out[i] /\ out[i] <= 223 /\ i < Len(out)
            /\ 128 <= out[i + 1] /\ out[i + 1] <= 191
         THEN Utf8Valid(out, i + 2)
         ELSE FALSE

\* read_str: a negative length becomes a usize above isize::MAX and the
\* allocation panics with a capacity overflow
read_str(bytes, pos) ==
    LET len == read_i32(bytes, pos)
        out == read_exact(bytes, len.pos, len.value)
    IN IF len.status # "ok" THEN len
       ELSE IF len.value < 0 THEN ReadPanic("capacity overflow", len.pos)
       ELSE IF out.status # "ok" THEN out
       ELSE IF ~Utf8Valid(out.value, 1) THEN ReadErr("UTF8Error", out.pos)
       ELSE out

\* write_str
write_str(str) == I32ToLe(Len(str)) \o str

\* str::split(','): the pieces between the commas (byte 44), empty ones kept
RECURSIVE Split(_, _, _)
Split(str, i, piece) ==
    IF i > Len(str) THEN <<piece>>
    ELSE IF str[i] = 44 THEN <<piece>> \o Split(str, i + 1, <<>>)
    ELSE Split(str, i + 1, Append(piece, str[i]))

\* [String]::join(",")
RECURSIVE Join_NoSeparator(_, _)
Join_NoSeparator(pieces, i) ==
    IF i > Len(pieces) THEN <<>>
    ELSE pieces[i] \o Join_NoSeparator(pieces, i + 1)
RECURSIVE Join(_, _)
Join(pieces, i) ==
    IF i > Len(pieces) THEN <<>>
    ELSE IF i = Len(pieces) THEN pieces[i]
    ELSE pieces[i] \o <<44>> \o Join(pieces, i + 1)

\* `match read_str(r)?.as_str() { "" => Vec::new(), v => v.split(',')... }`
read_modifiers(bytes, pos) ==
    LET str == read_str(bytes, pos)
    IN IF str.status # "ok" THEN str
       ELSE ReadOk(IF str.value = <<>> THEN <<>> ELSE Split(str.value, 1, <<>>),
                   str.pos)

\* the fields of ReplayInfo after its marker byte, in reading order
InfoLayout ==
    <<[name |-> "version", kind |-> "str"],
      [name |-> "game_version", kind |-> "str"],
      [name |-> "timestamp", kind |-> "str"],
      [name |-> "player_id", kind |-> "str"],
      [name |-> "player_name", kind |-> "str"],
      [name |-> "platform", kind |-> "str"],
      [name |-> "tracking_system", kind |-> "str"],
      [name |-> "hmd", kind |-> "str"],
      [name |-> "controller", kind |-> "str"],
      [name |-> "song_hash", kind |-> "str"],
      [name |-> "song_name", kind |-> "str"],
      [name |-> "mapper", kind |-> "str"],
      [name |-> "difficulty", kind |-> "str"],
      [name |-> "score", kind |-> "i32"],
      [name |-> "mode", kind |-> "str"],
      [name |-> "environment", kind |-> "str"],
      [name |-> "modifiers", kind |-> "modifiers"],
      [name |-> "jump_distance", kind |-> "f32"],
      [name |-> "left_handed", kind |-> "bool"],
      [name |-> "height", kind |-> "f32"],
      [name |-> "start_time", kind |-> "f32"],
      [name |-> "fail_time", kind |-> "f32"],
      [name |-> "speed", kind |-> "f32"]>>

\* the fields of ReplayFrame: time, fps, then position (x, y, z) and
\* rotation (x, y, z, w) of head, left hand and right hand
FrameLayout ==
    <<[name |-> "time", kind |-> "f32"], [name |-> "fps", kind |-> "i32"]>>
    \o [i \in 1..21 |-> [name |-> "pose", kind |-> "f32"]]

ReadField(bytes, pos, kind) ==
    CASE kind = "str" -> read_str(bytes, pos)
      [] kind = "i32" -> read_i32(bytes, pos)
      [] kind = "f32" -> read_f32(bytes, pos)
      [] kind = "bool" -> read_bool(bytes, pos)
      [] kind = "modifiers" -> read_modifiers(bytes, pos)

WriteField(kind, value) ==
    CASE kind = "str" -> write_str(value)
      [] kind = "i32" -> I32ToLe(value)
      [] kind = "f32" -> value
      [] kind = "bool" -> <<IF value THEN 1 ELSE 0>>
      [] kind = "modifiers" -> write_str(Join(value, 1))

\* the `field: read_x(r)?` initialisers of a struct expression, in order
RECURSIVE ReadFields(_, _, _, _, _)
ReadFields(bytes, pos, layout, i, acc) ==
    IF i > Len(layout) THEN ReadOk(acc, pos)
    ELSE LET r == ReadField(bytes, pos, layout[i].kind)
         IN IF r.status # "ok" THEN r
            ELSE ReadFields(bytes, r.pos, layout, i + 1, Append(acc, r.value))

RECURSIVE WriteFields(_, _, _)
WriteFields(layout, values, i) ==
    IF i > Len(layout) THEN <<>>
    ELSE WriteField(layout[i].kind, values[i])
            \o WriteFields(layout, values, i + 1)

\* ReplayInfo::from_reader
ReplayInfoFromReader(bytes, pos) ==
    LET marker == read_byte(bytes, pos)
    IN IF marker.status # "ok" THEN marker
       ELSE IF marker.value # 0 THEN ReadPanic("assert_eq", marker.pos)
       ELSE ReadFields(bytes, marker.pos, InfoLayout, 1, <<>>)

\* ReplayInfo::serialize_to_writer
ReplayInfoSerialize(info) == <<0>> \o WriteFields(InfoLayout, info, 1)

\* ReplayFrame::from_reader / serialize_to_writer
ReplayFrameFromReader(bytes, pos) ==
    ReadFields(bytes, pos, FrameLayout, 1, <<>>)
ReplayFrameSerialize(frame) == WriteFields(FrameLayout, frame, 1)

\* `for frame in frames.iter_mut() { *frame = ReplayFrame::from_reader(r)? }`
RECURSIVE FramesLoop(_, _, _, _)
FramesLoop(bytes, pos, n, frames) ==
    IF Len(frames) = n THEN ReadOk(frames, pos)
    ELSE LET frame == ReplayFrameFromReader(bytes, pos)
         IN IF frame.status # "ok" THEN frame
            ELSE FramesLoop(bytes, frame.pos, n, Append(frames, frame.value))

Magic == <<105, 61, 45, 68>>

\* Replay::from_reader: each `?` returns the failed read, each assert_eq!
\* panics, and a negative frame count overflows the capacity of the vector
ReplayFromReader(bytes) ==
    Try(read_i32(bytes, 0), LAMBDA magic :
      IF magic.value # I32FromLe(Magic) THEN ReadPanic("assert_eq", magic.pos)
      ELSE Try(read_byte(bytes, magic.pos), LAMBDA version :
        IF version.value # 1 THEN ReadPanic("assert_eq", version.pos)
        ELSE Try(ReplayInfoFromReader(bytes, version.pos), LAMBDA info :
          Try(read_byte(bytes, info.pos), LAMBDA marker :
            IF marker.value # 1 THEN ReadPanic("assert_eq", marker.pos)
            ELSE Try(read_i32(bytes, marker.pos), LAMBDA n_frames :
              IF n_frames.value < 0
              THEN ReadPanic("capacity overflow", n_frames.pos)
              ELSE Try(FramesLoop(bytes, n_frames.pos, n_frames.value, <<>>),
                       LAMBDA frames :
                         ReadOk([info |-> info.value, frames |-> frames.value],
                                frames.pos)))))))

RECURSIVE FramesSerialize(_, _)
FramesSerialize(frames, i) ==
    IF i > Len(frames) THEN <<>>
    ELSE ReplayFrameSerialize(frames[i]) \o FramesSerialize(frames, i + 1)

\* Replay::serialize_to_writer
ReplaySerialize(self) ==
    Magic \o <<1>> \o ReplayInfoSerialize(self.info) \o <<1>>
        \o I32ToLe(Len(self.frames)) \o FramesSerialize(self.frames, 1)


\* Inputs of the codec: byte sequences laid out as a recording, each part
\* drawn from a few well-formed and malformed alternatives.
One == <<0, 0, 128, 63>>
EmptyStr == <<0, 0, 0, 0>>
Repeat(part, n) == [i \in 1..(n * Len(part)) |-> part[((i - 1) % Len(part)) + 1]]

\* "", "a", a two-byte character, the invalid byte 0xFF, a length of -1
VersionParts ==
    {EmptyStr, <<1, 0, 0, 0, 97>>, <<2, 0, 0, 0, 195, 169>>,
     <<1, 0, 0, 0, 255>>, <<255, 255, 255, 255>>}
\* "", "a", "a,b", ",", "a,"
ModifierParts ==
    {EmptyStr, <<1, 0, 0, 0, 97>>, <<3, 0, 0, 0, 97, 44, 98>>,
     <<1, 0, 0, 0, 44>>, <<2, 0, 0, 0, 97, 44>>}
FrameBytes == One \o <<90, 0, 0, 0>> \o Repeat(One, 21)
\* a frame count from -1 to MaxFrames + 1 over at most MaxFrames frames
FrameParts ==
    {I32ToLe(n) \o Repeat(FrameBytes, IF n > MaxFrames THEN MaxFrames
                                       ELSE IF n < 0 THEN 0 ELSE n) :
        n \in (0 - 1)..(MaxFrames + 1)}

Recordings ==
    {magic \o <<1>> \o info_marker \o version \o Repeat(EmptyStr, 12)
        \o score \o Repeat(EmptyStr, 2) \o modifiers \o One \o flag
        \o Repeat(One, 4) \o frames_marker \o frames \o trailing :
        magic \in {Magic, <<105, 61, 45, 0>>},
        info_marker \in {<<0>>, <<1>>},
        version \in VersionParts,
        score \in {<<57, 48, 0, 0>>, <<255, 255, 255, 255>>},
        modifiers \in ModifierParts,
        flag \in {<<0>>, <<1>>, <<2>>},
        frames_marker \in {<<0>>, <<1>>},
        frames \in FrameParts,
        trailing \in {<<>>, <<2, 7, 7>>}}

NotSerialized == <<"none">>

\* A byte buffer about to be parsed.
InitReplay ==
    /\ overflow_checks \in BOOLEAN
    /\ IdleTempo
    /\ direction = NoCall
    /\ precision = NoCall
    /\ obstacle = NoCall
    /\ parsed = NoCall
    /\ normalized = NoCall
    /\ mapinfo = NoCall
    /\ \E bytes \in Recordings :
        replay = [called |-> FALSE, bytes |-> bytes,
                  result |-> ReadErr("none", 0), serialized |-> NotSerialized]

\* Replay::from_bytes(bytes)
FromBytes ==
    /\ replay # NoCall
    /\ ~replay.called
    /\ replay' = [replay EXCEPT !.called = TRUE,
                                !.result = ReplayFromReader(replay.bytes)]
    /\ UNCHANGED <<normalized, mapinfo>>
    /\ UNCHANGED <<overflow_checks, start_bpm, events, tracker, answers,
                   direction, precision, obstacle, parsed>>

\* replay.serialize_to_bytes() on the parsed recording
SerializeToBytes ==
    /\ replay # NoCall
    /\ replay.called
    /\ replay.result.status = "ok"
    /\ replay.serialized = NotSerialized
    /\ replay' = [replay EXCEPT
                    !.serialized = ReplaySerialize(replay.result.value)]
    /\ UNCHANGED <<normalized, mapinfo>>
    /\ UNCHANGED <<overflow_checks, start_bpm, events, tracker, answers,
                   direction, precision, obstacle, parsed>>

NextReplay == FromBytes \/ SerializeToBytes

SpecReplay == InitReplay /\ [][NextReplay]_vars

----------------------------------------------------------------------------
(* Properties of the replay codec (SpecReplay) *)

RoundTripped == replay # NoCall /\ replay.serialized # NotSerialized

IsPrefix(a, b) == Len(a) <= Len(b) /\ SubSeq(b, 1, Len(a)) = a

\* offset of the left-handed flag byte: the magic and version (5 bytes),
\* then the info section up to its last four f32 fields
FlagOffset ==
    5 + Len(ReplayInfoSerialize(replay.result.value.info)) - 16

\* C17 as stated: the serialization of every successfully parsed byte
\* sequence is byte for byte a prefix of that sequence.
C17_RoundTripAsStated ==
    RoundTripped => IsPrefix(replay.serialized, replay.bytes)

\* C17 amended: the serialization of a successfully parsed byte sequence is
\* no longer than the sequence and agrees with it on every byte except the
\* left-handed flag, which is written as 0 when the byte read was 0 and as 1
\* when it was anything else; it is a prefix whenever the flag byte read was
\* 0 or 1.
C17_RoundTrip ==
    RoundTripped =>
        LET out == replay.serialized
            b == replay.bytes
        IN /\ Len(out) <= Len(b)
           /\ \A i \in 1..Len(out) :
                IF i = FlagOffset
                THEN out[i] = (IF b[i] = 0 THEN 0 ELSE 1)
                ELSE out[i] = b[i]
           /\ b[FlagOffset] \in {0, 1} => IsPrefix(out, b)

\* C17 witness: a recording with a non-ASCII version string, the modifiers
\* "a,b", a set flag and one frame, followed by further bytes, written back
\* as a proper prefix.
C17_ProperPrefix ==
    /\ RoundTripped
    /\ replay.result.value.info[1] = <<195, 169>>
    /\ replay.result.value.info[17] = <<<<97>>, <<98>>>>
    /\ replay.result.value.info[19] = TRUE
    /\ Len(replay.result.value.frames) = 1
    /\ IsPrefix(replay.serialized, replay.bytes)
    /\ Len(replay.serialized) < Len(replay.bytes)


----------------------------------------------------------------------------
(* Version detection before structural decoding (SpecDispatch) *)

\* the marker read by the dispatcher is one an adapter accepts: "_version"
\* starting with "2.", or, without "_version", "version" starting with "3."
SupportedMarker(value) ==
    \/ HasPrefix(Get(value, "_version"), <<"2", ".">>)
    \/ /\ Get(value, "_version") = <<>>
       /\ HasPrefix(Get(value, "version"), <<"3", ".">>)

\* C21: a document without a version marker, or whose marker is a string
\* that no adapter accepts, yields the unsupported-version error without
\* reaching an adapter, whatever collections it lacks or holds malformed; an
\* adapter's deserialization is attempted only for a supported marker, and a
\* structural-decode error comes only from an adapter that was reached.
C21_VersionBeforeDecoding ==
    parsed.called =>
        LET value == parsed.value
            m == Marker(value)
            r == parsed.result
        IN /\ (m = <<>> \/ (m[1].kind = "string" /\ ~SupportedMarker(value)))
                => (r.error = "UnsupportedVersion" /\ r.routed = "none")
           /\ r.routed # "none" => SupportedMarker(value)
           /\ r.error = "SimdJson" => r.routed # "none"

\* C21 witness: a "9.0.0" document with a collection missing and the others
\* malformed is reported as an unsupported version, and a "2.0.0" document
\* with the same defects would have failed in the adapter.
C21_MalformedUnsupported ==
    /\ parsed.called
    /\ Get(parsed.value, "_version")
            = <<JsonString(<<"9", ".", "0", ".", "0">>)>>
    /\ "_notes" \notin DOMAIN parsed.value
    /\ "_obstacles" \in DOMAIN parsed.value
    /\ parsed.value["_obstacles"].kind = "number"
    /\ parsed.result.error = "UnsupportedVersion"
    /\ parsed.result.routed = "none"
    /\ ~V2Deserialize([parsed.value EXCEPT
            !["_version"] = JsonString(<<"2", ".", "0", ".", "0">>)]).ok


----------------------------------------------------------------------------
(* Totality of the tempo timeline construction (SpecTempo) *)

\* C22: BpmTracker::new completes for every non-empty event list: the
\* constructor returns a tracker, with one segment per event, and does not
\* panic on the lookup of the preceding segment, whether or not the first
\* event is at beat 0.
C22_ConstructionTotal ==
    (tracker.status # "none" /\ events # <<>>) =>
        /\ tracker.status = "built"
        /\ Len(tracker.changes) = Len(events)


----------------------------------------------------------------------------
(* Malformed replays (SpecReplay) *)

\* C23: Replay::from_bytes returns Ok or Err(ParseError) for every byte
\* sequence and never panics, in particular not on a wrong magic number, a
\* wrong section marker, a negative string length or a negative frame count.
C23_MalformedIsError ==
    (replay # NoCall /\ replay.called) =>
        /\ replay.result.status \in {"ok", "err"}
        /\ replay.result.status = "err" =>
                replay.result.error \in {"IoError", "UTF8Error"}

====
